---- MODULE Spec2Model ----
(***************************************************************************)
(* Model of export_menu.py: rows of a sheet are normalised, grouped and    *)
(* sorted into a menu document (build_menu), the document is fingerprinted *)
(* (stable_hash) and written to latest.json plus a timestamped snapshot    *)
(* when the fingerprint differs from the stored one (write_outputs).       *)
(*                                                                         *)
(* Text is a sequence of one-character strings, so that strip() and        *)
(* lower() are computed.  A cell value is a record [t, s, b]: t is the     *)
(* Python type ("str", "bool", "none"), s the text, b the boolean.         *)
(* A float is a record [nan, num, int]: num is the value in tenths, int    *)
(* says the value is the Python int 0 that norm_sort got as its default.   *)
(***************************************************************************)
EXTENDS Integers, Sequences, FiniteSets, TLC

\* ------------------------------------------------------------------ bounds
MaxRows == 3
MaxRuns == 3
StartSec == 58
ClockSpan == 5
TicksPerSec == 2

\* -------------------------------------------------------------------- text
\* The characters in use, in code point order.
Chars == <<" ", "-", ".", "0", "1", "2", "3", "A", "B", "C", "E", "F", "N", "S", "T", "Y",
           "a", "b", "c", "e", "f", "l", "n", "o", "r", "s", "t", "u", "x", "y">>

Ord(c) == CHOOSE i \in 1..Len(Chars) : Chars[i] = c

\* str.lower() on one character
LowerChar(c) ==
    CASE c = "A" -> "a" [] c = "B" -> "b" [] c = "C" -> "c" [] c = "E" -> "e"
      [] c = "N" -> "n" [] c = "S" -> "s" [] c = "T" -> "t" [] c = "Y" -> "y"
      [] c = "F" -> "f" [] OTHER -> c

Lower(s) == [i \in 1..Len(s) |-> LowerChar(s[i])]

RECURSIVE LStrip(_)
LStrip(s) == IF s # <<>> /\ Head(s) = " " THEN LStrip(Tail(s)) ELSE s

RECURSIVE RStrip(_)
RStrip(s) == IF s # <<>> /\ s[Len(s)] = " " THEN RStrip(SubSeq(s, 1, Len(s) - 1)) ELSE s

\* str.strip()
Strip(s) == RStrip(LStrip(s))

\* s < t on Python strings: code point order, a proper prefix is smaller
RECURSIVE StrLt(_, _)
StrLt(s, t) ==
    IF t = <<>> THEN FALSE
    ELSE IF s = <<>> THEN TRUE
    ELSE IF Head(s) # Head(t) THEN Ord(Head(s)) < Ord(Head(t))
    ELSE StrLt(Tail(s), Tail(t))

\* ------------------------------------------------------------- cell values
StrV(s) == [t |-> "str", s |-> s, b |-> FALSE]
BoolV(b) == [t |-> "bool", s |-> <<>>, b |-> b]
NoneV == [t |-> "none", s |-> <<>>, b |-> FALSE]

\* str(v)
Str(v) ==
    CASE v.t = "str" -> v.s
      [] v.t = "bool" -> IF v.b THEN <<"T", "r", "u", "e">> ELSE <<"F", "a", "l", "s", "e">>
      [] OTHER -> <<"N", "o", "n", "e">>

\* r.get(k, default)
Get(r, k, default) == IF k \in DOMAIN r THEN r[k] ELSE default

REQUIRED_HEADERS == <<"category", "item", "price", "description", "available", "sort", "image_url">>

TruthyTokens == { <<"t", "r", "u", "e">>, <<"1">>, <<"y", "e", "s">>, <<"y">>, <<"t">> }

\* norm_bool without .lower()
norm_bool_CaseSensitive(v, default) ==
    IF v.t = "none" THEN default
    ELSE IF v.t = "bool" THEN v.b
    ELSE LET s == Strip(Str(v))
         IN IF s = <<>> THEN default ELSE s \in TruthyTokens

norm_bool(v, default) ==
    IF v.t = "none" THEN default
    ELSE IF v.t = "bool" THEN v.b
    ELSE LET s == Lower(Strip(Str(v)))
         IN IF s = <<>> THEN default ELSE s \in TruthyTokens

\* ------------------------------------------------------------------ floats
Num(n) == [nan |-> FALSE, num |-> n, int |-> FALSE]
NaN == [nan |-> TRUE, num |-> 0, int |-> FALSE]
IntZero == [nan |-> FALSE, num |-> 0, int |-> TRUE]

Digits == {"0", "1", "2", "3"}
DigitVal(c) == CASE c = "0" -> 0 [] c = "1" -> 1 [] c = "2" -> 2 [] OTHER -> 3

RECURSIVE DigitsVal(_)
DigitsVal(s) == IF s = <<>> THEN 0 ELSE 10 * DigitsVal(SubSeq(s, 1, Len(s) - 1)) + DigitVal(s[Len(s)])

AllDigits(s) == s # <<>> /\ \A i \in 1..Len(s) : s[i] \in Digits

\* The unsigned decimal literals float() takes, of the shapes d+ and d+.d, in tenths.
IsDecimal(s) ==
    \/ AllDigits(s)
    \/ /\ Len(s) >= 3
       /\ s[Len(s) - 1] = "."
       /\ s[Len(s)] \in Digits
       /\ AllDigits(SubSeq(s, 1, Len(s) - 2))

DecimalVal(s) ==
    IF AllDigits(s) THEN 10 * DigitsVal(s)
    ELSE 10 * DigitsVal(SubSeq(s, 1, Len(s) - 2)) + DigitVal(s[Len(s)])

\* float(s): [ok, val]; ok is FALSE where float() raises ValueError.
\* float() takes "nan" in any case and yields a NaN.
ParseFloat(s) ==
    LET u == Strip(s)
        neg == u # <<>> /\ Head(u) = "-"
        body == IF neg THEN Tail(u) ELSE u
    IN IF Lower(body) = <<"n", "a", "n">> THEN [ok |-> TRUE, val |-> NaN]
       ELSE IF IsDecimal(body)
            THEN [ok |-> TRUE, val |-> Num(IF neg THEN 0 - DecimalVal(body) ELSE DecimalVal(body))]
            ELSE [ok |-> FALSE, val |-> NaN]

norm_sort(v, default) ==
    LET s == Strip(Str(v))
    IN IF s = <<>> THEN default
       ELSE IF ParseFloat(s).ok THEN ParseFloat(s).val ELSE default

\* x < y and x == y on floats: every comparison with a NaN is false
FloatLt(x, y) == ~x.nan /\ ~y.nan /\ x.num < y.num
FloatEq(x, y) == ~x.nan /\ ~y.nan /\ x.num = y.num

\* (s1, n1) < (s2, n2) on tuples: the first pair of unequal elements decides
KeyLt(k1, k2) ==
    IF ~FloatEq(k1[1], k2[1]) THEN FloatLt(k1[1], k2[1])
    ELSE StrLt(k1[2], k2[2])

\* ------------------------------------------------------------- list.sort()
\* CPython's list.sort on a list under 64 elements: count_run finds the
\* leading run (a strictly descending one is reversed), binarysort inserts
\* the rest one by one to the right of the elements not greater.  keys is
\* the sequence of sort keys, the result is the permutation of indices.
RECURSIVE RunLen(_, _, _)
RunLen(keys, n, descending) ==
    IF n >= Len(keys) THEN n
    ELSE IF descending = KeyLt(keys[n + 1], keys[n]) THEN RunLen(keys, n + 1, descending)
    ELSE n

Reverse(s) == [i \in 1..Len(s) |-> s[Len(s) + 1 - i]]

RECURSIVE BinSearch(_, _, _, _, _)
BinSearch(keys, perm, pivot, l, r) ==
    IF l >= r THEN l
    ELSE LET p == l + ((r - l) \div 2)
         IN IF KeyLt(keys[pivot], keys[perm[p + 1]])
            THEN BinSearch(keys, perm, pivot, l, p)
            ELSE BinSearch(keys, perm, pivot, p + 1, r)

InsertAt(s, i, x) == SubSeq(s, 1, i) \o <<x>> \o SubSeq(s, i + 1, Len(s))

RECURSIVE BinarySort(_, _, _)
BinarySort(keys, perm, start) ==
    IF start > Len(keys) THEN perm
    ELSE BinarySort(keys, InsertAt(perm, BinSearch(keys, perm, start, 0, Len(perm)), start), start + 1)

SortPerm(keys) ==
    IF Len(keys) < 2 THEN [i \in 1..Len(keys) |-> i]
    ELSE LET descending == KeyLt(keys[2], keys[1])
             n == RunLen(keys, 2, descending)
             run == [i \in 1..n |-> i]
         IN BinarySort(keys, IF descending THEN Reverse(run) ELSE run, n + 1)

\* min(iterable): the first element no later element is smaller than
RECURSIVE MinFrom(_, _, _)
MinFrom(s, i, best) ==
    IF i > Len(s) THEN best
    ELSE MinFrom(s, i + 1, IF FloatLt(s[i], best) THEN s[i] ELSE best)

Min(s) == MinFrom(s, 2, s[1])

\* ------------------------------------------------------------- build_menu
\* validate_headers: the required headers the first row lacks, in the order
\* of REQUIRED_HEADERS; no row, nothing missing.
MissingHeaders_FirstOnly(rs) ==
    IF rs = <<>> THEN <<>>
    ELSE LET all == SelectSeq(REQUIRED_HEADERS, LAMBDA h : h \notin DOMAIN rs[1])
         IN IF all = <<>> THEN <<>> ELSE <<all[1]>>

MissingHeaders(rs) ==
    IF rs = <<>> THEN <<>>
    ELSE SelectSeq(REQUIRED_HEADERS, LAMBDA h : h \notin DOMAIN rs[1])

RowCategory(r) == Strip(Str(Get(r, "category", StrV(<<>>))))
RowName(r) == Strip(Str(Get(r, "item", StrV(<<>>))))

\* the row passes the two `continue` tests of the loop
Accepted(r) ==
    /\ RowCategory(r) # <<>>
    /\ RowName(r) # <<>>
    /\ norm_bool(Get(r, "available", BoolV(TRUE)), TRUE)

\* the dict appended to items for an accepted row
ItemOf(r) ==
    [category |-> RowCategory(r),
     name |-> RowName(r),
     description |-> Strip(Str(Get(r, "description", StrV(<<>>)))),
     price_display |-> Strip(Str(Get(r, "price", StrV(<<>>)))),
     image_url |-> Strip(Str(Get(r, "image_url", StrV(<<>>)))),
     sort |-> norm_sort(Get(r, "sort", StrV(<<"0">>)), IntZero)]

RECURSIVE ItemsOf(_)
ItemsOf(rs) ==
    IF rs = <<>> THEN <<>>
    ELSE IF Accepted(Head(rs)) THEN <<ItemOf(Head(rs))>> \o ItemsOf(Tail(rs))
    ELSE ItemsOf(Tail(rs))

\* keys of `grouped`, in insertion order
RECURSIVE GroupNames(_, _)
GroupNames(items, seen) ==
    IF items = <<>> THEN seen
    ELSE GroupNames(Tail(items),
                    IF \E i \in 1..Len(seen) : seen[i] = Head(items).category
                    THEN seen ELSE Append(seen, Head(items).category))

ItemKey(x) == <<x.sort, Lower(x.name)>>

\* cat_items.sort(key=lambda x: (x["sort"], x["name"].lower()))
SortItems(cat_items) ==
    LET perm == SortPerm([i \in 1..Len(cat_items) |-> ItemKey(cat_items[i])])
    IN [i \in 1..Len(cat_items) |-> cat_items[perm[i]]]

PublicItem(x) ==
    [name |-> x.name, description |-> x.description,
     price_display |-> x.price_display, image_url |-> x.image_url]

CategoryOf(cat_name, items) ==
    LET cat_items == SortItems(SelectSeq(items, LAMBDA it : it.category = cat_name))
    IN [name |-> cat_name,
        sort |-> IF cat_items = <<>> THEN IntZero
                 ELSE Min([i \in 1..Len(cat_items) |-> cat_items[i].sort]),
        items |-> [i \in 1..Len(cat_items) |-> PublicItem(cat_items[i])]]

CategoryKey(c) == <<c.sort, Lower(c.name)>>

\* categories.sort(key=lambda c: (c["sort"], c["name"].lower()))
SortCategories(cats) ==
    LET perm == SortPerm([i \in 1..Len(cats) |-> CategoryKey(cats[i])])
    IN [i \in 1..Len(cats) |-> cats[perm[i]]]

Categories(rs) ==
    LET items == ItemsOf(rs)
        names == GroupNames(items, <<>>)
    IN SortCategories([i \in 1..Len(names) |-> CategoryOf(names[i], items)])

\* stable_hash: SHA-256 of the canonical JSON of the object; the digest is
\* taken to be collision free, so it is the canonical form of what is hashed
\* (every key of the object that is there when the hash is taken).
\* a hash of the categories alone
stable_hash_NoTimestamp(obj) == <<"sha256", obj.categories>>

stable_hash(obj) == <<"sha256", obj.generated_at, obj.categories>>

\* build_menu after validate_headers passed, with the clock reading `now`
BuildMenu(rs, now) ==
    LET menu == [generated_at |-> now, categories |-> Categories(rs)]
    IN [generated_at |-> menu.generated_at,
        categories |-> menu.categories,
        hash |-> stable_hash(menu)]

\* ------------------------------------------------------------------ files
\* A file is [kind, obj].  kind "json" is a file json.dump wrote in full and
\* obj the object it holds.  The other kinds are what json.load or .get fails
\* on: "truncated" (a write that failed part way: a proper prefix of a JSON
\* text is no JSON text), "nonobject" (JSON that is no object), "nohash" (an
\* object without a hash key), "unreadable" (open() raises).
None == <<>>
NoDoc == [generated_at |-> 0 - 1, categories |-> <<>>, hash |-> None]

\* json.dump(menu, f, ensure_ascii=False, indent=2) into a file opened "w"
Dump(menu) == [kind |-> "json", obj |-> menu]
Truncated == [kind |-> "truncated", obj |-> NoDoc]
Missing == [kind |-> "missing", obj |-> NoDoc]
ForeignKinds == {"truncated", "nonobject", "nohash", "unreadable"}

\* load_existing_hash: [raised, hash]; every exception is caught, so raised
\* is FALSE on every file.
\* load_existing_hash without its try/except
load_existing_hash_NoExcept(file) ==
    IF file.kind = "missing" THEN [raised |-> FALSE, hash |-> None]
    ELSE IF file.kind = "json" THEN [raised |-> FALSE, hash |-> file.obj.hash]
    ELSE IF file.kind = "nohash" THEN [raised |-> FALSE, hash |-> None]
    ELSE [raised |-> TRUE, hash |-> None]

load_existing_hash(file) ==
    IF file.kind = "missing" THEN [raised |-> FALSE, hash |-> None]
    ELSE IF file.kind = "json" THEN [raised |-> FALSE, hash |-> file.obj.hash]
    ELSE [raised |-> FALSE, hash |-> None]

\* datetime.now(timezone.utc).strftime("%Y-%m-%dT%H%M%SZ"): the digits of
\* %H%M%S, zero padded; the date is the same over the modelled span.
\* a name of the seconds alone ("%SZ")
strftime_SecondsOnly(sec) == <<(sec % 60) \div 10, (sec % 60) % 10>>

strftime(sec) ==
    LET h == (sec \div 3600) % 24
        m == (sec \div 60) % 60
        ss == sec % 60
    IN <<h \div 10, h % 10, m \div 10, m % 10, ss \div 10, ss % 10>>

\* file names compare as strings: digit by digit, a proper prefix is smaller
RECURSIVE NameLt(_, _)
NameLt(a, b) ==
    IF b = <<>> THEN FALSE
    ELSE IF a = <<>> THEN TRUE
    ELSE IF Head(a) # Head(b) THEN Head(a) < Head(b)
    ELSE NameLt(Tail(a), Tail(b))

\* ------------------------------------------------------------------ state
VARIABLES
    clock,      \* the UTC clock, in ticks (TicksPerSec ticks to the second)
    latest,     \* the file latest.json
    snaps,      \* the files of snapshots/: file name -> file
    pc,         \* where the run is
    rows,       \* what read_sheet_rows returned
    menu,       \* what build_menu returned
    old_hash,   \* write_outputs' old_hash
    ts,         \* write_outputs' ts
    result,     \* how the run ended: "changed" (write_outputs returned True),
                \* "unchanged" (False), or the exception that ended it
    missing,    \* the columns the RuntimeError of validate_headers lists
    latest0,    \* history: latest.json when the run started
    snaps0,     \* history: snapshots/ when the run started
    clean,      \* history: no write has failed and nobody else wrote latest.json
    nRuns,      \* history: runs started
    nChanged    \* history: runs that returned True

vars == <<clock, latest, snaps, pc, rows, menu, old_hash, ts, result, missing,
          latest0, snaps0, clean, nRuns, nChanged>>

files == <<latest, snaps>>
hist == <<latest0, snaps0, clean, nRuns, nChanged>>

FirstTick == StartSec * TicksPerSec
LastTick == FirstTick + ClockSpan
Second(t) == t \div TicksPerSec

\* ----------------------------------------------------------------- inputs
Cell(s) == StrV(s)

Row(cat, item, avail, sort, price) ==
    [h \in {REQUIRED_HEADERS[i] : i \in 1..Len(REQUIRED_HEADERS)} |->
        CASE h = "category" -> Cell(cat)
          [] h = "item" -> Cell(item)
          [] h = "available" -> avail
          [] h = "sort" -> Cell(sort)
          [] h = "price" -> Cell(price)
          [] OTHER -> Cell(<<>>)]

Without(r, hs) == [h \in DOMAIN r \ hs |-> r[h]]

\* The sheets the runs read: empty, two menus, and one without two columns.
Sheets ==
    { <<>>,
      << Row(<<"A">>, <<"B">>, Cell(<<>>), <<"1">>, <<"2">>) >>,
      << Row(<<"A">>, <<"C">>, Cell(<<"y">>), <<"1">>, <<"3">>) >>,
      << Without(Row(<<"A">>, <<"B">>, Cell(<<>>), <<"1">>, <<"2">>), {"price", "sort"}) >> }

Init ==
    /\ clock = FirstTick
    /\ latest = Missing
    /\ snaps = <<>>
    /\ pc = "idle"
    /\ rows = <<>>
    /\ menu = NoDoc
    /\ old_hash = None
    /\ ts = <<>>
    /\ result = "none"
    /\ missing = <<>>
    /\ latest0 = Missing
    /\ snaps0 = <<>>
    /\ clean = TRUE
    /\ nRuns = 0
    /\ nChanged = 0

\* ---------------------------------------------------------------- actions
\* The clock moves on, at any point of a run or between runs.
Tick ==
    /\ \E d \in 1..TicksPerSec :
        /\ clock + d <= LastTick
        /\ clock' = clock + d
    /\ UNCHANGED <<latest, snaps, pc, rows, menu, old_hash, ts, result, missing, hist>>

\* main: rows = read_sheet_rows()
ReadSheetRows ==
    /\ pc = "idle"
    /\ nRuns < MaxRuns
    /\ \E rs \in Sheets : rows' = rs
    /\ pc' = "fetched"
    /\ menu' = NoDoc
    /\ old_hash' = None
    /\ ts' = <<>>
    /\ result' = "none"
    /\ missing' = <<>>
    /\ latest0' = latest
    /\ snaps0' = snaps
    /\ nRuns' = nRuns + 1
    /\ UNCHANGED <<clock, latest, snaps, clean, nChanged>>

\* main: menu = build_menu(rows); validate_headers raises before any row is read
BuildMenuStep ==
    /\ pc = "fetched"
    /\ IF MissingHeaders(rows) # <<>>
       THEN /\ pc' = "raised"
            /\ result' = "RuntimeError"
            /\ missing' = MissingHeaders(rows)
            /\ UNCHANGED menu
       ELSE /\ pc' = "built"
            /\ menu' = BuildMenu(rows, clock)
            /\ UNCHANGED <<result, missing>>
    /\ UNCHANGED <<clock, latest, snaps, rows, old_hash, ts, hist>>

\* write_outputs that writes the snapshot before it compares the hashes
CompareHashes_WritesFirst ==
    /\ pc = "built"
    /\ old_hash' = load_existing_hash(latest).hash
    /\ snaps' = [n \in DOMAIN snaps \cup {strftime(Second(clock))} |->
                    IF n = strftime(Second(clock)) THEN Dump(menu) ELSE snaps[n]]
    /\ IF old_hash' = menu.hash
       THEN pc' = "done" /\ result' = "unchanged"
       ELSE pc' = "write_latest" /\ UNCHANGED result
    /\ UNCHANGED <<clock, latest, rows, menu, ts, missing, hist>>

\* write_outputs, to the comparison of the hashes.  The two mkdir create
\* directories, no file; the output directory is taken to be one they succeed
\* in, as load_existing_hash is not reached otherwise.
CompareHashes ==
    /\ pc = "built"
    /\ LET got == load_existing_hash(latest)
       IN IF got.raised
          THEN /\ pc' = "raised"
               /\ result' = "LoadError"
               /\ UNCHANGED old_hash
          ELSE /\ old_hash' = got.hash
               /\ IF got.hash = menu.hash
                  THEN pc' = "done" /\ result' = "unchanged"
                  ELSE pc' = "write_latest" /\ UNCHANGED result
    /\ UNCHANGED <<clock, latest, snaps, rows, menu, ts, missing, hist>>

\* write_outputs: open(LATEST_PATH, "w") and json.dump.  The write can fail:
\* open() raised (the file is as it was) or the dump broke off (truncated).
WriteLatest ==
    /\ pc = "write_latest"
    /\ \/ /\ latest' = Dump(menu)
          /\ pc' = "write_snap"
          /\ UNCHANGED <<result, clean>>
       \/ /\ latest' \in {latest, Truncated}
          /\ pc' = "raised"
          /\ result' = "OSError"
          /\ clean' = FALSE
    /\ UNCHANGED <<clock, snaps, rows, menu, old_hash, ts, missing, latest0, snaps0, nRuns, nChanged>>

\* write_outputs that catches the failure of the snapshot write and returns True
WriteSnapshot_Swallows ==
    /\ pc = "write_snap"
    /\ ts' = strftime(Second(clock))
    /\ \/ snaps' = [n \in DOMAIN snaps \cup {ts'} |-> IF n = ts' THEN Dump(menu) ELSE snaps[n]]
       \/ snaps' = snaps
       \/ snaps' = [n \in DOMAIN snaps \cup {ts'} |-> IF n = ts' THEN Truncated ELSE snaps[n]]
    /\ pc' = "done"
    /\ result' = "changed"
    /\ nChanged' = nChanged + 1
    /\ UNCHANGED <<clock, latest, rows, menu, old_hash, missing, latest0, snaps0, clean, nRuns>>

\* write_outputs: ts, open(snap_path, "w"), json.dump, return True
WriteSnapshot ==
    /\ pc = "write_snap"
    /\ ts' = strftime(Second(clock))
    /\ \/ /\ snaps' = [n \in DOMAIN snaps \cup {ts'} |-> IF n = ts' THEN Dump(menu) ELSE snaps[n]]
          /\ pc' = "done"
          /\ result' = "changed"
          /\ nChanged' = nChanged + 1
          /\ UNCHANGED clean
       \/ /\ \/ snaps' = snaps
             \/ snaps' = [n \in DOMAIN snaps \cup {ts'} |-> IF n = ts' THEN Truncated ELSE snaps[n]]
          /\ pc' = "raised"
          /\ result' = "OSError"
          /\ clean' = FALSE
          /\ UNCHANGED nChanged
    /\ UNCHANGED <<clock, latest, rows, menu, old_hash, missing, latest0, snaps0, nRuns>>

\* the process exits: what the run held in memory is gone
Exit ==
    /\ pc \in {"done", "raised"}
    /\ pc' = "idle"
    /\ rows' = <<>>
    /\ menu' = NoDoc
    /\ old_hash' = None
    /\ ts' = <<>>
    /\ result' = "none"
    /\ missing' = <<>>
    /\ latest0' = Missing
    /\ snaps0' = <<>>
    /\ UNCHANGED <<clock, latest, snaps, clean, nRuns, nChanged>>

\* Something other than this program leaves latest.json in a state the
\* program does not write: not JSON, no object, no hash key, not readable.
ForeignWrite ==
    /\ pc = "idle"
    /\ \E k \in ForeignKinds : latest' = [kind |-> k, obj |-> NoDoc]
    /\ clean' = FALSE
    /\ UNCHANGED <<clock, snaps, pc, rows, menu, old_hash, ts, result, missing, latest0, snaps0, nRuns, nChanged>>

Next ==
    \/ Tick
    \/ ReadSheetRows
    \/ BuildMenuStep
    \/ CompareHashes
    \/ WriteLatest
    \/ WriteSnapshot
    \/ Exit
    \/ ForeignWrite

Spec == Init /\ [][Next]_vars

\* ------------------------------------------------- build_menu on its own
\* The rows build_menu is run on: every sequence of at most MaxRows rows of
\* RowPool.  The pool has blank and padded categories and names, every kind
\* of `available` (blank, None, booleans, tokens in both cases, other text),
\* every kind of `sort` (blank, integers, a decimal, a negative, text that is
\* no number, "nan"), names and categories that differ in case only, and a
\* row without the columns available and sort.
RowPool ==
    { Row(<<"A">>, <<"B">>, Cell(<<>>), <<"2">>, <<"1">>),
      Row(<<"A", " ">>, <<"A">>, Cell(<<"Y", "E", "S">>), <<"1">>, <<"2">>),
      Row(<<"A">>, <<" ", "C">>, BoolV(TRUE), <<"1", ".", "0">>, <<"3">>),
      Row(<<"A">>, <<"b">>, Cell(<<" ", "t", " ">>), <<"2">>, <<"0">>),
      Row(<<"b">>, <<"C">>, Cell(<<"n", "o">>), <<"1">>, <<"1">>),
      Row(<<"b">>, <<"C">>, Cell(<<"1">>), <<"x">>, <<"2">>),
      Row(<<"B">>, <<"A">>, NoneV, <<>>, <<"1">>),
      Row(<<" ">>, <<"A">>, Cell(<<"y">>), <<"1">>, <<"1">>),
      Row(<<"C">>, <<" ", " ">>, Cell(<<"y">>), <<"1">>, <<"1">>),
      Row(<<"A">>, <<"C">>, BoolV(FALSE), <<"0">>, <<"1">>),
      Row(<<"b">>, <<"a">>, Cell(<<"T", "r", "u", "e">>), <<"n", "a", "n">>, <<"3">>),
      Row(<<"C">>, <<"B">>, Cell(<<"t", "t">>), <<"1">>, <<"1">>),
      Row(<<"C">>, <<"B">>, Cell(<<"Y">>), <<"-", "1">>, <<"2">>),
      Without(Row(<<"C">>, <<"A">>, Cell(<<>>), <<>>, <<"3">>), {"available", "sort"}) }

RowSeqs == UNION { [1..n -> RowPool] : n \in 0..MaxRows }

InitBuild ==
    /\ clock = FirstTick
    /\ latest = Missing
    /\ snaps = <<>>
    /\ pc = "fetched"
    /\ rows \in RowSeqs
    /\ menu = NoDoc
    /\ old_hash = None
    /\ ts = <<>>
    /\ result = "none"
    /\ missing = <<>>
    /\ latest0 = Missing
    /\ snaps0 = <<>>
    /\ clean = TRUE
    /\ nRuns = 1
    /\ nChanged = 0

NextBuild == BuildMenuStep

SpecBuild == InitBuild /\ [][NextBuild]_vars

\* ============================================================ properties
Range(f) == { f[i] : i \in DOMAIN f }
Count(f, x) == Cardinality({ i \in DOMAIN f : f[i] = x })

\* ---- C6 ----------------------------------------------------------------
\* The `available` cell as the claim reads it: absent or blank is true, a
\* boolean is itself, any other text is true exactly for the five tokens.
ClaimAvailable(r) ==
    IF "available" \notin DOMAIN r THEN TRUE
    ELSE LET v == r["available"]
             text == Lower(Strip(v.s))
         IN CASE v.t = "none" -> TRUE
              [] v.t = "bool" -> v.b
              [] OTHER -> \/ text = <<>>
                          \/ text = <<"t", "r", "u", "e">>
                          \/ text = <<"1">>
                          \/ text = <<"y", "e", "s">>
                          \/ text = <<"y">>
                          \/ text = <<"t">>

ClaimTrimmed(r, h) == IF h \in DOMAIN r THEN Strip(Str(r[h])) ELSE <<>>

Contributes(r) ==
    /\ ClaimTrimmed(r, "category") # <<>>
    /\ ClaimTrimmed(r, "item") # <<>>
    /\ ClaimAvailable(r)

ContributingRows == { j \in 1..Len(rows) : Contributes(rows[j]) }

\* C6: a row contributes an item iff its trimmed category and item name are
\* non-empty and its available value normalizes to true; each such row is one
\* item of the one category named by its trimmed category (so each category
\* holds as many copies of an item as there are such rows for it, and nothing
\* else), category names are not repeated, and no category is empty.
C6_RowsBecomeItems ==
    pc = "built" =>
        LET cats == menu.categories
        IN /\ \A i \in 1..Len(cats) : cats[i].items # <<>>
           /\ \A i, k \in 1..Len(cats) : cats[i].name = cats[k].name => i = k
           /\ { cats[i].name : i \in 1..Len(cats) }
                = { ClaimTrimmed(rows[j], "category") : j \in ContributingRows }
           /\ \A i \in 1..Len(cats) :
                LET mine == { j \in ContributingRows : ClaimTrimmed(rows[j], "category") = cats[i].name }
                IN /\ Len(cats[i].items) = Cardinality(mine)
                   /\ \A j \in mine :
                        Count(cats[i].items, PublicItem(ItemOf(rows[j])))
                          = Cardinality({ k \in mine : PublicItem(ItemOf(rows[k])) = PublicItem(ItemOf(rows[j])) })

\* three rows: one kept, one dropped for its available value, one dropped for
\* a blank name, and a second kept one in another category
C6_Witness ==
    /\ pc = "built"
    /\ Len(menu.categories) = 2
    /\ \E j \in 1..Len(rows) :
        /\ ~Contributes(rows[j])
        /\ ClaimTrimmed(rows[j], "category") # <<>>
        /\ ClaimTrimmed(rows[j], "item") # <<>>
    /\ \E j \in ContributingRows :
        /\ "available" \in DOMAIN rows[j]
        /\ rows[j]["available"].t = "str"
        /\ rows[j]["available"].s # <<>>

\* ---- C7 ----------------------------------------------------------------
IsNumber(x) == ~x.nan

\* key k1 is not after key k2 in the order of (sort, lower-cased name); a key
\* whose sort is not a number is not compared
NotAfter(k1, k2) ==
    (IsNumber(k1[1]) /\ IsNumber(k2[1])) =>
        \/ k1[1].num < k2[1].num
        \/ k1[1].num = k2[1].num /\ ~StrLt(k2[2], k1[2])

SameKey(k1, k2) ==
    IsNumber(k1[1]) /\ IsNumber(k2[1]) /\ k1[1].num = k2[1].num /\ k1[2] = k2[2]

\* perm puts keys in non-decreasing order and keeps ties in their first order
OrderedBy(keys, perm) ==
    \A i, j \in 1..Len(perm) :
        i < j => /\ NotAfter(keys[perm[i]], keys[perm[j]])
                 /\ SameKey(keys[perm[i]], keys[perm[j]]) => perm[i] < perm[j]

\* the items of category cat_name in row order, as build_menu groups them
Group(rs, cat_name) == SelectSeq(ItemsOf(rs), LAMBDA it : it.category = cat_name)

IsLeast(x, sorts) ==
    (\A i \in 1..Len(sorts) : IsNumber(sorts[i])) =>
        /\ \E i \in 1..Len(sorts) : sorts[i].num = x.num
        /\ \A i \in 1..Len(sorts) : x.num <= sorts[i].num
        /\ IsNumber(x)

ItemsInOrder(rs, cats) ==
    \A c \in 1..Len(cats) :
        LET g == Group(rs, cats[c].name)
            keys == [i \in 1..Len(g) |-> <<g[i].sort, Lower(g[i].name)>>]
        IN /\ Len(cats[c].items) = Len(g)
           /\ IsLeast(cats[c].sort, [i \in 1..Len(g) |-> g[i].sort])
           /\ \E perm \in [1..Len(g) -> 1..Len(g)] :
                /\ \A i \in 1..Len(g) : cats[c].items[i] = PublicItem(g[perm[i]])
                /\ \A i, j \in 1..Len(g) : perm[i] = perm[j] => i = j
                /\ OrderedBy(keys, perm)

CategoriesInOrder(rs, cats) ==
    LET seen == GroupNames(ItemsOf(rs), <<>>)
        keys == [i \in 1..Len(cats) |-> <<cats[i].sort, Lower(cats[i].name)>>]
        pos(n) == CHOOSE i \in 1..Len(seen) : seen[i] = n
    IN \A i, j \in 1..Len(cats) :
        i < j => /\ NotAfter(keys[i], keys[j])
                 /\ SameKey(keys[i], keys[j]) => pos(cats[i].name) < pos(cats[j].name)

\* C7: in the document build_menu returns, the items of every category are in
\* non-decreasing order of (sort, lower-cased name), ties in row order, and the
\* categories in non-decreasing order of (category sort, lower-cased name),
\* ties in first-seen order, a category's sort being the least sort of its
\* items.
C7_Ordered ==
    pc = "built" =>
        /\ ItemsInOrder(rows, menu.categories)
        /\ CategoriesInOrder(rows, menu.categories)

HasNaN(rs) == \E i \in 1..Len(ItemsOf(rs)) : ItemsOf(rs)[i].sort.nan

\* The order holds of every sheet none of whose kept rows has the sort "nan".
SortedWhenNoNaN == HasNaN(rows) \/ C7_Ordered

\* the example of the claim: sorts [2, 1, 1] and names [B, A, C] of one
\* category come out as A, C, B
ExampleInOrder ==
    (/\ pc = "built"
     /\ Len(rows) = 3
     /\ \A j \in 1..3 : Contributes(rows[j]) /\ RowCategory(rows[j]) = <<"A">>
     /\ [j \in 1..3 |-> RowName(rows[j])] = << <<"B">>, <<"A">>, <<"C">> >>
     /\ [j \in 1..3 |-> ItemOf(rows[j]).sort.num] = <<20, 10, 10>>)
    => [i \in 1..3 |-> menu.categories[1].items[i].name] = << <<"A">>, <<"C">>, <<"B">> >>

\* ---- C8 ----------------------------------------------------------------
RequiredSet == { REQUIRED_HEADERS[i] : i \in 1..Len(REQUIRED_HEADERS) }

\* the run is past build_menu
PastBuild == pc \in {"built", "write_latest", "write_snap", "done", "raised"}

\* C8: rows whose first row lacks required columns end the run in build_menu
\* with an error listing each of the missing columns once, before any document
\* is built and with every file as it was; with no rows nothing is validated
\* and the document has no categories and a hash.
C8_HeadersValidatedFirst ==
    /\ (PastBuild /\ rows # <<>> /\ RequiredSet \ DOMAIN rows[1] # {}) =>
          /\ pc = "raised"
          /\ result = "RuntimeError"
          /\ Range(missing) = RequiredSet \ DOMAIN rows[1]
          /\ Len(missing) = Cardinality(RequiredSet \ DOMAIN rows[1])
          /\ menu = NoDoc
          /\ latest = latest0
          /\ snaps = snaps0
    /\ (PastBuild /\ rows = <<>>) =>
          /\ result # "RuntimeError"
          /\ missing = <<>>
          /\ menu # NoDoc
          /\ menu.categories = <<>>
          /\ menu.hash # None

\* a run on a sheet without two columns has failed, with files there to lose
C8_Witness ==
    /\ pc = "raised"
    /\ Len(missing) = 2
    /\ latest.kind = "json"
    /\ snaps # <<>>

C8_WitnessEmpty ==
    /\ pc = "done"
    /\ rows = <<>>
    /\ result = "changed"

\* ---- C1 ----------------------------------------------------------------
\* the run is past the comparison of the hashes
Compared == pc \in {"write_latest", "write_snap", "done"} \/ (pc = "raised" /\ menu # NoDoc)

\* the hash load_existing_hash can read from the file, None when there is none
ReadableHash(file) == IF file.kind = "json" THEN file.obj.hash ELSE None

\* C1: with a hash that differs from the stored one (or none stored) the run
\* first overwrites latest.json with the document, then writes one snapshot,
\* named by a UTC second of the run, with the content of latest.json, every
\* other snapshot staying as it was; it reports "changed" only then, and a
\* failed write ends the run with the error.
C1_ChangedWritesBoth ==
    /\ (Compared /\ ReadableHash(latest0) # menu.hash) => result \in {"none", "changed", "OSError"}
    /\ pc = "write_latest" => ReadableHash(latest0) # menu.hash /\ latest = latest0 /\ snaps = snaps0
    /\ pc = "write_snap" => latest = Dump(menu) /\ snaps = snaps0 /\ result = "none"
    /\ result = "changed" =>
          /\ pc = "done"
          /\ ReadableHash(latest0) # menu.hash
          /\ latest = Dump(menu)
          /\ \E t \in menu.generated_at..clock : ts = strftime(Second(t))
          /\ DOMAIN snaps = DOMAIN snaps0 \cup {ts}
          /\ snaps[ts] = latest
          /\ \A n \in DOMAIN snaps0 \ {ts} : snaps[n] = snaps0[n]
    /\ (pc = "raised" /\ menu # NoDoc) => result = "OSError"

C1_Witness ==
    /\ pc = "done"
    /\ result = "changed"
    /\ latest0.kind = "json"
    /\ Cardinality(DOMAIN snaps) = 2
    /\ Cardinality(DOMAIN snaps0) = 1

\* ---- C2 ----------------------------------------------------------------
\* C2: a document whose hash is the one stored in latest.json makes
\* write_outputs report no change and leave latest.json and every snapshot as
\* they were; and it reports no change in no other case.
C2_UnchangedWritesNothing ==
    /\ (Compared /\ latest0.kind = "json" /\ latest0.obj.hash = menu.hash) =>
          /\ pc = "done"
          /\ result = "unchanged"
          /\ latest = latest0
          /\ snaps = snaps0
    /\ result = "unchanged" => latest0.kind = "json" /\ latest0.obj.hash = menu.hash

C2_Witness ==
    /\ pc = "done"
    /\ result = "unchanged"
    /\ snaps # <<>>

\* ---- C3 ----------------------------------------------------------------
\* C3: a run whose document has the categories of the stored document but
\* another generated_at has another hash, is not reported unchanged, and when
\* its writes succeed it is reported changed with its document in latest.json
\* and in the snapshot of its second.
C3_FreshTimestampIsChange ==
    (/\ Compared
     /\ latest0.kind = "json"
     /\ latest0.obj.categories = menu.categories
     /\ latest0.obj.generated_at # menu.generated_at)
    => /\ latest0.obj.hash # menu.hash
       /\ result # "unchanged"
       /\ pc = "done" => /\ result = "changed"
                         /\ latest = Dump(menu)
                         /\ ts \in DOMAIN snaps
                         /\ snaps[ts] = Dump(menu)

C3_Witness ==
    /\ pc = "done"
    /\ result = "changed"
    /\ rows # <<>>
    /\ latest0.kind = "json"
    /\ latest0.obj.categories = menu.categories
    /\ latest0.obj.generated_at # menu.generated_at

\* ---- C4 ----------------------------------------------------------------
\* the document of the run was generated at another instant than every
\* snapshot there is: the run is a later run, not one of the same clock reading
LaterRun == \A n \in DOMAIN snaps : snaps[n].obj.generated_at # menu.generated_at

\* C4: a snapshot file, once there, keeps its content and is never deleted
\* (stated of later runs without a failed write).
C4_SnapshotsWriteOnce ==
    [][(clean' /\ LaterRun) =>
          \A n \in DOMAIN snaps : n \in DOMAIN snaps' /\ snaps'[n] = snaps[n]]_vars

\* ---- C5 ----------------------------------------------------------------
\* C5: the snapshot a changed run writes has a name greater than the name of
\* every snapshot there is, so there are as many snapshots as changed runs
\* (stated of later runs without a failed write).
C5_NamesIncrease ==
    [][(clean' /\ LaterRun /\ pc = "write_snap" /\ pc' = "done") =>
          /\ \A n \in DOMAIN snaps : NameLt(n, ts')
          /\ Cardinality(DOMAIN snaps') = nChanged']_vars

\* ---- C9 ----------------------------------------------------------------
\* C9: when latest.json is missing, unreadable, no JSON, no object or an
\* object without a hash, reading the prior hash yields None and the run goes
\* on to write latest.json and the snapshot: it ends changed, or with the
\* error of a write.
C9_UnreadablePriorIsAbsent ==
    (pc \in {"write_latest", "write_snap", "done", "raised"} /\ menu # NoDoc /\ latest0.kind # "json") =>
        /\ old_hash = None
        /\ result \in {"none", "changed", "OSError"}
        /\ pc = "done" => /\ result = "changed"
                          /\ latest = Dump(menu)
                          /\ snaps[ts] = Dump(menu)

C9_Witness ==
    /\ pc = "done"
    /\ result = "changed"
    /\ latest0.kind = "nonobject"
    /\ latest = Dump(menu)

\* ---- C10 ---------------------------------------------------------------
IsGreatest(n, names) == n \in names /\ \A o \in names \ {n} : NameLt(o, n)

\* C10: between runs, when no write has failed and nothing else wrote
\* latest.json, latest.json is there iff a snapshot is, and it has the content
\* of the snapshot with the greatest name.
C10_LatestIsNewestSnapshot ==
    (clean /\ pc = "idle") =>
        /\ latest.kind = "missing" <=> DOMAIN snaps = {}
        /\ \A n \in DOMAIN snaps : IsGreatest(n, DOMAIN snaps) => latest = snaps[n]
        /\ DOMAIN snaps # {} => \E n \in DOMAIN snaps : IsGreatest(n, DOMAIN snaps)

\* three changed runs, two of them in one second, and a snapshot of a later minute
C10_Witness ==
    /\ clean
    /\ pc = "idle"
    /\ nChanged = 3
    /\ Cardinality(DOMAIN snaps) = 2
    /\ \E n \in DOMAIN snaps : n[4] = 1

====
